---- MODULE Spec2Model ----
(***************************************************************************)
(* A model of THR_to_GIF/capture.js (the second, current version of the    *)
(* script, lines 172-533): argument validation, main's capture pipeline,   *)
(* captureWithRetry / captureFrame on the single browser page, the gap     *)
(* filler, the two encoder invocations, the preview capture and cleanup.   *)
(*                                                                         *)
(* Files are modelled by what they hold: a frame file is a record          *)
(* [src, t] where src says who wrote it ("shot": page.screenshot of this   *)
(* run, "stale": a file found in ./frames when the process started,        *)
(* "blank": createBlankFrame) and t is the animation time, in frames, the  *)
(* page showed when the picture was taken (t / fps seconds).               *)
(***************************************************************************)
EXTENDS Integers, Sequences, FiniteSets

\* ---------------------------------------------------------------- bounds
\* Largest duration argument tried, in units of 1 / DurScale seconds.
MaxDur == 5
\* Timed-out captureFrame invocations that may still resume later; a
\* further timed-out invocation is taken to hang until the page is closed.
MaxOrphans == 1

\* ------------------------------------------------------ program constants
DEFAULT_FPS == 30
MAX_RETRIES == 3
fps == DEFAULT_FPS

\* Duration arguments are multiples of half a frame time, so that
\* Math.ceil in totalFrames has something to round.
DurScale == 2 * DEFAULT_FPS

\* parseFloat(process.argv[4]): a number (v / DurScale seconds) or NaN.
NaN == [nan |-> TRUE, v |-> 0]
Num(x) == [nan |-> FALSE, v |-> x]
DurArgs == {NaN} \cup {Num(h) : h \in -1..MaxDur}

\* Math.ceil(a / b) for b > 0.
CeilDiv(a, b) == -((-a) \div b)

\* const totalFrames = Math.ceil(duration * fps); NaN stays NaN.
TotalFramesOf(d) == IF d.nan THEN NaN ELSE Num(CeilDiv(d.v * fps, DurScale))

\* JavaScript's i < n and d <= 0: every comparison with NaN is false.
Lt(k, n) == ~n.nan /\ k < n.v
LeZero(d) == ~d.nan /\ d.v <= 0

\* The largest frame count the duration arguments give, and the frame
\* indices the model keeps files for (frame_0001 is read for any count).
MaxFrames == CeilDiv(MaxDur * fps, DurScale)
MaxIdx == IF MaxFrames > 1 THEN MaxFrames ELSE 1
FrameIdx == 0..MaxIdx

\* ------------------------------------------------------------ frame files
Missing == [src |-> "none", t |-> 0]
Blank == [src |-> "blank", t |-> 0]
Stale(k) == [src |-> "stale", t |-> k]
Shot(t) == [src |-> "shot", t |-> t]
EmptyDir == [k \in FrameIdx |-> Missing]

\* fs.existsSync(`${tempDir}/frame_<k>.png`)
Exists(f, k) == k \in DOMAIN f /\ f[k] # Missing

VARIABLES
    htmlPath,      \* process.argv[2] was given
    duration,      \* parseFloat(process.argv[4])
    pc,            \* where the process is
    exitCode,      \* the exit status once pc = "exited", else -1
    exitVia,       \* how the process ended
    dirExists,     \* ./frames exists
    frames,        \* the frame files in ./frames
    paletteExists, \* palette.png exists
    browser,       \* main's variable browser is set
    i,             \* main's loop index
    attempt,       \* captureWithRetry's loop index
    cur,           \* the captureFrame invocation being raced, or NoCapture
    orphans,       \* captureFrame invocations that lost their race
    pageTime,      \* the last seek applied to the page, -1 before any
    ret,           \* captureWithRetry's return value for frame i
    backoffMs,     \* the wait captureWithRetry is in, in ms
    \* history
    called,        \* frame indices captureWithRetry was called with
    outcomes,      \* outcome of each attempt of the current call
    calls,         \* captureFrame invocations of the current call
    gaps,          \* frame indices for which captureWithRetry returned false
    dirAtFill,     \* the frame files when fillMissingFrames started
    encLog,        \* the encoder invocations: <<[cmd, ok], ...>>
    failedAt,      \* the stage whose error reached main's catch
    cleanups,      \* number of cleanup() calls
    stages,        \* main's steps after the frame loop, in order
    callSeq,       \* the frame indices captureWithRetry was called with, in order
    waits,         \* the backoff waits of the current call, in order
    settled,       \* some raced captureFrame resolved or threw before its timer
    wsh            \* the wrapper script run_thr_tool.sh (its own process)

vars == <<htmlPath, duration, pc, exitCode, exitVia, dirExists, frames,
          paletteExists, browser, i, attempt, cur, orphans, pageTime, ret,
          backoffMs, called, outcomes, calls, gaps, dirAtFill, encLog,
          failedAt, cleanups, stages, callSeq, waits, settled,
          wsh>>

totalFrames == TotalFramesOf(duration)
NoCapture == [idx |-> -1, ph |-> "none"]

\* ------------------------------------------------------------- gap filler
\* fillMissingFrames, lines 241-250: the first-frame special case.
FirstFrameFixBlank(f) ==
    IF ~Exists(f, 0) THEN [f EXCEPT ![0] = Blank] ELSE f

FirstFrameFix(f) ==
    IF ~Exists(f, 0)
      THEN IF Exists(f, 1) THEN [f EXCEPT ![0] = f[1]]
                           ELSE [f EXCEPT ![0] = Blank]
      ELSE f

\* lines 255-258: let j = i - 1; while (j >= 0 && !exists(j)) j--;
RECURSIVE ScanBack(_, _)
ScanBack(f, j) == IF j >= 0 /\ ~Exists(f, j) THEN ScanBack(f, j - 1) ELSE j

\* A scan that stops at the lowest frame instead of the nearest earlier one.
ScanSourceLowest(f, k) == IF k >= 1 THEN 0 ELSE -1

ScanSource(f, k) == ScanBack(f, k - 1)

\* lines 253-265: one iteration of the scan loop.
FillOne(f, k) ==
    IF ~Exists(f, k)
      THEN LET j == ScanSource(f, k)
           IN  IF j >= 0 THEN [f EXCEPT ![k] = f[j]]
                         ELSE [f EXCEPT ![k] = Blank]
      ELSE f

\* A loop that stops one index early.
FillLoopCondShort(k, n) == Lt(k + 1, n)

\* line 252: i < totalFrames
FillLoopCond(k, n) == Lt(k, n)

RECURSIVE FillLoop(_, _, _)
FillLoop(f, k, n) ==
    IF FillLoopCond(k, n) THEN FillLoop(FillOne(f, k), k + 1, n) ELSE f

\* fillMissingFrames, lines 239-271.
FillMissingFrames(f, n) == FillLoop(FirstFrameFix(f), 0, n)

\* ------------------------------------------------------- captureWithRetry
\* The catch branch of captureWithRetry, lines 335-343, with a final
\* failure rethrown to the caller.
CwrOnErrorThrows(a, retries) ==
    IF a = retries THEN "throw" ELSE "backoff"

\* The catch branch giving up one attempt early.
CwrOnErrorEarly(a, retries) ==
    IF a >= retries - 1 THEN "return_false" ELSE "backoff"

\* lines 335-343: what captureWithRetry does with a failed attempt.
CwrOnError(a, retries) ==
    IF a = retries THEN "return_false" ELSE "backoff"

\* A backoff that doubles: 1000, 2000, 4000 ms.
BackoffDelayDoubling(a) == 1000 * (2 ^ a)

\* line 341: setTimeout(resolve, 1000 * (attempt + 1))
BackoffDelay(a) == 1000 * (a + 1)

\* captureFrame, lines 273-323: its awaits in order. "seek" is the first
\* page.evaluate (277-295), "clip" the stabilisation delay and the second
\* page.evaluate (300-315), "shot" page.screenshot (318).
NextPhase(ph) ==
    CASE ph = "seek" -> "clip"
      [] ph = "clip" -> "shot"
      [] ph = "shot" -> "done"

\* The page after a captureFrame invocation for frame k finished phase ph.
SeekEffect(k, ph, t) == IF ph = "seek" THEN k ELSE t

\* The frame files after it: page.screenshot writes what the page shows.
ShotEffect(f, k, ph, t) == IF ph = "shot" THEN [f EXCEPT ![k] = Shot(t)] ELSE f

\* ------------------------------------------------------------ the encoder
\* The palette callback with the error ignored.
PaletteCallbackIgnoresErr(err) == "resolve"

\* lines 491-497: the palette callback.
PaletteCallback(err) == IF err THEN "reject" ELSE "resolve"

\* The GIF callback going on to the preview whatever the encoder said.
GifCallbackIgnoresErr(err) == "continue"

\* lines 503-516: the GIF callback.
GifCallback(err) == IF err THEN "reject" ELSE "continue"

\* lines 519-521: catch (error) { ...; process.exit(1); }
CatchExit == [code |-> 1, via |-> "catch"]

\* A race without a timer: only captureFrame can settle it.
TimerNeverFires == FALSE

\* lines 330-332: while a race is pending its timer is pending too, and
\* fires TIMEOUT_MS after the race started.
TimerPending == pc = "race"

\* The wrapper script before it is started.
WIdle == [pc |-> "idle"]

\* ------------------------------------------------------- run_thr_tool.sh
\* The wrapper script is a process of its own; its state is the record wsh:
\* argv, what $1 names (kind, and for a folder its entries in glob order),
\* the shell variables, the files the for loop still has to visit, the
\* invocations of the underlying tool so far and the exit status.

\* Most entries a folder given to the script holds.
MaxEntries == 2

\* A directory entry: whether its name matches *.thr, whether it is a
\* regular file, and whether the tool fails on it.
Entries(n) == [1..n -> [thr : BOOLEAN, regular : BOOLEAN, fails : BOOLEAN]]
Folders == UNION {Entries(n) : n \in 0..MaxEntries}

\* The command lines tried; the last one is the README's example.
ReadmeArgv == <<"your1.thr", "-d", "20">>
WArgvs == {<<>>, <<"in">>, <<"", "20">>, <<"in", "20">>, ReadmeArgv}

\* $n: empty when the argument is missing.
WArg(argv, n) == IF n <= Len(argv) THEN argv[n] ELSE ""

\* resolve_path, lines 4-6: os.path.abspath of the name.
ResolvePath(name) == [abs |-> TRUE, name |-> name]

\* "$INPUT"/*.thr, line 20: the matching entries in order, or the pattern
\* itself (no file) when nothing matches.
RECURSIVE GlobFrom(_, _)
GlobFrom(entries, n) ==
    IF n > Len(entries) THEN <<>>
    ELSE IF entries[n].thr THEN <<n>> \o GlobFrom(entries, n + 1)
                           ELSE GlobFrom(entries, n + 1)
Glob(entries) ==
    IF GlobFrom(entries, 1) = <<>> THEN <<0>> ELSE GlobFrom(entries, 1)

\* [[ -f "$f" ]], line 21; 0 stands for the unmatched pattern.
IsRegular(entries, n) == n \in DOMAIN entries /\ entries[n].regular

\* A script that stops at the first failing command (set -e).
WOnToolStatusErrexit(failed) == IF failed THEN "exit" ELSE "next"

\* The script has no set -e: whatever the tool's status, it goes on.
WOnToolStatus(failed) == "next"

\* Line 25 and line 31: python3 "$SCRIPT" "$full_path" -d "$DURATION"
ToolCall(name, dur, failed) ==
    [file |-> ResolvePath(name), flag |-> "-d", dur |-> dur, failed |-> failed]

WInits ==
    {[pc |-> "start", argv |-> a, kind |-> k, entries |-> e,
      INPUT |-> "", DURATION |-> "", todo |-> <<>>, calls |-> <<>>,
      usage |-> FALSE, exit |-> -1] :
        a \in WArgvs, k \in {"file", "absent", "dir"}, e \in Folders}

\* Lines 8-18 and 28: the arguments, the usage check, the branch.
WStart ==
    /\ wsh.pc = "start"
    /\ LET in == WArg(wsh.argv, 1)
           du == WArg(wsh.argv, 2)
       IN  wsh' = IF in = "" \/ du = ""
                    THEN [wsh EXCEPT !.pc = "done", !.INPUT = in,
                                     !.DURATION = du, !.usage = TRUE,
                                     !.exit = 1]
                    ELSE IF wsh.kind = "dir"
                      THEN [wsh EXCEPT !.pc = "loop", !.INPUT = in,
                                       !.DURATION = du,
                                       !.todo = Glob(wsh.entries),
                                       !.exit = 0]
                      ELSE [wsh EXCEPT !.pc = "single", !.INPUT = in,
                                       !.DURATION = du]

\* Lines 20-27: one iteration of the for loop, or its end.
WLoopStep ==
    /\ wsh.pc = "loop"
    /\ IF wsh.todo = <<>>
         THEN wsh' = [wsh EXCEPT !.pc = "done"]
         ELSE LET f == Head(wsh.todo)
              IN  IF IsRegular(wsh.entries, f)
                    THEN LET failed == wsh.entries[f].fails
                         IN  wsh' = [wsh EXCEPT
                               !.calls = Append(@, ToolCall(f, wsh.DURATION, failed)),
                               !.exit = IF failed THEN 1 ELSE 0,
                               !.todo = IF WOnToolStatus(failed) = "next"
                                          THEN Tail(@) ELSE <<>>,
                               !.pc = IF WOnToolStatus(failed) = "next"
                                        THEN "loop" ELSE "done"]
                    ELSE wsh' = [wsh EXCEPT !.todo = Tail(@), !.exit = 0]

\* Lines 29-31: the single-file branch; the tool's status is the script's.
WSingle ==
    /\ wsh.pc = "single"
    /\ \E failed \in BOOLEAN :
         wsh' = [wsh EXCEPT
                   !.calls = Append(@, ToolCall(wsh.INPUT, wsh.DURATION, failed)),
                   !.exit = IF failed THEN 1 ELSE 0,
                   !.pc = "done"]

\* ---------------------------------------------------------------- cleanup
\* cleanup(), lines 424-435: fs.rmSync(tempDir, recursive), fs.rmSync(palette).
CleanupEffect ==
    /\ dirExists' = FALSE
    /\ frames' = EmptyDir
    /\ paletteExists' = FALSE
    /\ cleanups' = cleanups + 1
    /\ stages' = Append(stages, "cleanup")

\* ------------------------------------------------------------------- Init
\* ./frames is whatever an earlier process left in the working directory:
\* main creates it only when absent (440-442) and never empties it, and a
\* run that is interrupted in its frame loop leaves any subset of frames.
InitialDirs == {[k \in FrameIdx |-> IF k \in S THEN Stale(k) ELSE Missing] :
                    S \in SUBSET FrameIdx}

Init ==
    /\ htmlPath \in BOOLEAN
    /\ duration \in DurArgs
    /\ pc = "validate"
    /\ exitCode = -1
    /\ exitVia = "running"
    /\ dirExists \in BOOLEAN
    /\ frames \in InitialDirs
    /\ (~dirExists => frames = EmptyDir)
    /\ paletteExists = FALSE
    /\ browser = FALSE
    /\ i = 0
    /\ attempt = 0
    /\ cur = NoCapture
    /\ orphans = {}
    /\ pageTime = -1
    /\ ret = FALSE
    /\ backoffMs = 0
    /\ called = {}
    /\ outcomes = <<>>
    /\ calls = 0
    /\ gaps = {}
    /\ dirAtFill = EmptyDir
    /\ encLog = <<>>
    /\ failedAt = "none"
    /\ cleanups = 0
    /\ stages = <<>>
    /\ callSeq = <<>>
    /\ waits = <<>>
    /\ settled = FALSE
    /\ wsh = WIdle

\* ---------------------------------------------------------------- actions
\* Lines 198-207: the checks that run before main.
Validate ==
    /\ pc = "validate"
    /\ IF ~htmlPath \/ LeZero(duration)
         THEN /\ pc' = "exited"
              /\ exitCode' = 1
              /\ exitVia' = "usage"
         ELSE /\ pc' = "mkdir"
              /\ UNCHANGED <<exitCode, exitVia>>
    /\ UNCHANGED <<htmlPath, duration, dirExists, frames, paletteExists,
                   browser, i, attempt, cur, orphans, pageTime, ret,
                   backoffMs, called, outcomes, calls, gaps, dirAtFill,
                   encLog, failedAt, cleanups,
                   stages,
                   callSeq, waits, wsh, settled>>

\* Lines 440-442: if (!fs.existsSync(tempDir)) fs.mkdirSync(tempDir).
MkDir ==
    /\ pc = "mkdir"
    /\ dirExists' = TRUE
    /\ pc' = "launch"
    /\ UNCHANGED <<htmlPath, duration, exitCode, exitVia, frames,
                   paletteExists, browser, i, attempt, cur, orphans,
                   pageTime, ret, backoffMs, called, outcomes, calls, gaps,
                   dirAtFill, encLog, failedAt, cleanups,
                   stages,
                   callSeq, waits, wsh, settled>>

\* Lines 445-448: puppeteer.launch, which may throw.
Launch ==
    /\ pc = "launch"
    /\ \E ok \in BOOLEAN :
         IF ok THEN /\ browser' = TRUE
                    /\ pc' = "load"
                    /\ UNCHANGED failedAt
               ELSE /\ pc' = "catch"
                    /\ failedAt' = "launch"
                    /\ UNCHANGED browser
    /\ UNCHANGED <<htmlPath, duration, exitCode, exitVia, dirExists, frames,
                   paletteExists, i, attempt, cur, orphans, pageTime, ret,
                   backoffMs, called, outcomes, calls, gaps, dirAtFill,
                   encLog, cleanups,
                   stages,
                   callSeq, waits, wsh, settled>>

\* Lines 450-474: newPage, goto, waitForFunction, delay; any may throw.
LoadPage ==
    /\ pc = "load"
    /\ \E ok \in BOOLEAN :
         IF ok THEN /\ pc' = "loop"
                    /\ UNCHANGED failedAt
               ELSE /\ pc' = "catch"
                    /\ failedAt' = "load"
    /\ i' = 0
    /\ UNCHANGED <<htmlPath, duration, exitCode, exitVia, dirExists, frames,
                   paletteExists, browser, attempt, cur, orphans, pageTime,
                   ret, backoffMs, called, outcomes, calls, gaps, dirAtFill,
                   encLog, cleanups,
                   stages,
                   callSeq, waits, wsh, settled>>

\* Lines 475-476: the loop test and the call of captureWithRetry(page, i).
LoopHead ==
    /\ pc = "loop"
    /\ IF Lt(i, totalFrames)
         THEN /\ pc' = "cwr_try"
              /\ called' = called \cup {i}
              /\ callSeq' = Append(callSeq, i)
              /\ waits' = <<>>
              /\ attempt' = 0
              /\ outcomes' = <<>>
              /\ calls' = 0
         ELSE /\ pc' = "close"
              /\ UNCHANGED <<called, attempt, outcomes, calls, callSeq,
                             waits>>
    /\ UNCHANGED <<htmlPath, duration, exitCode, exitVia, dirExists, frames,
                   paletteExists, browser, i, cur, orphans, pageTime, ret,
                   backoffMs, gaps, dirAtFill, encLog, failedAt, cleanups,
                   stages, wsh, settled>>

\* Lines 328-333: captureFrame(page, frameIndex) is called and raced
\* against a new timer.
StartAttempt ==
    /\ pc = "cwr_try"
    /\ cur' = [idx |-> i, ph |-> "seek"]
    /\ calls' = calls + 1
    /\ pc' = "race"
    /\ UNCHANGED <<htmlPath, duration, exitCode, exitVia, dirExists, frames,
                   paletteExists, browser, i, attempt, orphans, pageTime,
                   ret, backoffMs, called, outcomes, gaps, dirAtFill, encLog,
                   failedAt, cleanups,
                   stages,
                   callSeq, waits, wsh, settled>>

\* The catch branch of captureWithRetry (335-343) after a failed attempt.
AttemptFailed(kind) ==
    /\ outcomes' = Append(outcomes, "fail")
    /\ settled' = (settled \/ kind = "error")
    /\ LET what == CwrOnError(attempt, MAX_RETRIES)
       IN  CASE what = "return_false" ->
                  /\ ret' = FALSE
                  /\ gaps' = gaps \cup {i}
                  /\ pc' = "cwr_ret"
                  /\ UNCHANGED <<backoffMs, failedAt,
                   waits>>
             [] what = "backoff" ->
                  /\ backoffMs' = BackoffDelay(attempt)
                  /\ waits' = Append(waits, BackoffDelay(attempt))
                  /\ pc' = "cwr_backoff"
                  /\ UNCHANGED <<ret, gaps, failedAt>>
             [] OTHER ->
                  /\ pc' = "catch"
                  /\ failedAt' = "capture"
                  /\ UNCHANGED <<ret, gaps, backoffMs,
                   waits>>

\* The raced captureFrame passes one of its awaits; passing the last one
\* (the screenshot) resolves it, the race is won and captureWithRetry
\* returns true (line 334).
CaptureStep ==
    /\ pc = "race"
    /\ pageTime' = SeekEffect(cur.idx, cur.ph, pageTime)
    /\ frames' = ShotEffect(frames, cur.idx, cur.ph, pageTime)
    /\ settled' = (settled \/ NextPhase(cur.ph) = "done")
    /\ IF NextPhase(cur.ph) = "done"
         THEN /\ cur' = NoCapture
              /\ outcomes' = Append(outcomes, "ok")
              /\ ret' = TRUE
              /\ pc' = "cwr_ret"
         ELSE /\ cur' = [cur EXCEPT !.ph = NextPhase(cur.ph)]
              /\ UNCHANGED <<outcomes, ret, pc>>
    /\ UNCHANGED <<htmlPath, duration, exitCode, exitVia, dirExists,
                   paletteExists, browser, i, attempt, orphans, backoffMs,
                   called, calls, gaps, dirAtFill, encLog, failedAt,
                   cleanups,
                   stages,
                   callSeq, waits, wsh>>

\* The raced captureFrame throws at one of its awaits (319-322).
CaptureThrows ==
    /\ pc = "race"
    /\ cur' = NoCapture
    /\ AttemptFailed("error")
    /\ UNCHANGED <<htmlPath, duration, exitCode, exitVia, dirExists, frames,
                   paletteExists, browser, i, attempt, orphans, pageTime,
                   called, calls, dirAtFill, encLog, cleanups,
                   stages,
                   callSeq, wsh>>

\* Lines 330-332: the timer fires first and rejects the race. Nothing
\* cancels the captureFrame invocation, which stays pending on the page.
Timeout ==
    /\ TimerPending
    /\ orphans' = IF Cardinality(orphans) < MaxOrphans
                    THEN orphans \cup {cur} ELSE orphans
    /\ cur' = NoCapture
    /\ AttemptFailed("timeout")
    /\ UNCHANGED <<htmlPath, duration, exitCode, exitVia, dirExists, frames,
                   paletteExists, browser, i, attempt, pageTime, called,
                   calls, dirAtFill, encLog, cleanups,
                   stages,
                   callSeq, wsh>>

\* While captureWithRetry awaits (a race or a backoff), a captureFrame
\* invocation that lost its race passes one of its awaits.
OrphanStep ==
    /\ pc \in {"race", "cwr_backoff"}
    /\ \E o \in orphans :
         /\ pageTime' = SeekEffect(o.idx, o.ph, pageTime)
         /\ frames' = ShotEffect(frames, o.idx, o.ph, pageTime)
         /\ orphans' = IF NextPhase(o.ph) = "done"
                         THEN orphans \ {o}
                         ELSE (orphans \ {o}) \cup {[o EXCEPT !.ph = NextPhase(o.ph)]}
    /\ UNCHANGED <<htmlPath, duration, pc, exitCode, exitVia, dirExists,
                   paletteExists, browser, i, attempt, cur, ret, backoffMs,
                   called, outcomes, calls, gaps, dirAtFill, encLog,
                   failedAt, cleanups,
                   stages,
                   callSeq, waits, wsh, settled>>

\* ... or throws; the rejection is swallowed by the settled race.
OrphanThrows ==
    /\ pc \in {"race", "cwr_backoff"}
    /\ \E o \in orphans : orphans' = orphans \ {o}
    /\ UNCHANGED <<htmlPath, duration, pc, exitCode, exitVia, dirExists,
                   frames, paletteExists, browser, i, attempt, cur, pageTime,
                   ret, backoffMs, called, outcomes, calls, gaps, dirAtFill,
                   encLog, failedAt, cleanups,
                   stages,
                   callSeq, waits, wsh, settled>>

\* Line 341 elapsed: the for loop's attempt++ and the next iteration.
BackoffDone ==
    /\ pc = "cwr_backoff"
    /\ attempt' = attempt + 1
    /\ backoffMs' = 0
    /\ UNCHANGED waits
    /\ pc' = "cwr_try"
    /\ UNCHANGED <<htmlPath, duration, exitCode, exitVia, dirExists, frames,
                   paletteExists, browser, i, cur, orphans, pageTime, ret,
                   called, outcomes, calls, gaps, dirAtFill, encLog,
                   failedAt, cleanups,
                   stages,
                   callSeq, wsh, settled>>

\* Lines 476-478: captureWithRetry returned; completed++ and i++.
CwrReturn ==
    /\ pc = "cwr_ret"
    /\ i' = i + 1
    /\ pc' = "loop"
    /\ attempt' = 0
    /\ outcomes' = <<>>
    /\ calls' = 0
    /\ waits' = <<>>
    /\ UNCHANGED <<htmlPath, duration, exitCode, exitVia, dirExists, frames,
                   paletteExists, browser, cur, orphans, pageTime, ret,
                   backoffMs, called, gaps, dirAtFill, encLog, failedAt,
                   cleanups, stages, callSeq, settled, wsh>>

\* Lines 481-483: page.close(), browser.close(), browser = null. Whatever
\* was still pending on the page ends here.
ClosePage ==
    /\ pc = "close"
    /\ orphans' = {}
    /\ browser' = FALSE
    /\ pc' = "fill"
    /\ stages' = Append(stages, "close")
    /\ UNCHANGED <<htmlPath, duration, exitCode, exitVia, dirExists, frames,
                   paletteExists, i, attempt, cur, pageTime, ret, backoffMs,
                   called, outcomes, calls, gaps, dirAtFill, encLog,
                   failedAt, cleanups,
                   callSeq, waits, wsh, settled>>

\* Line 486: fillMissingFrames().
Fill ==
    /\ pc = "fill"
    /\ dirAtFill' = frames
    /\ frames' = FillMissingFrames(frames, totalFrames)
    /\ pc' = "palette"
    /\ stages' = Append(stages, "fill")
    /\ UNCHANGED <<htmlPath, duration, exitCode, exitVia, dirExists,
                   paletteExists, browser, i, attempt, cur, orphans,
                   pageTime, ret, backoffMs, called, outcomes, calls, gaps,
                   encLog, failedAt, cleanups,
                   callSeq, waits, wsh, settled>>

\* Lines 488-498: the palette command and its callback.
Palette ==
    /\ pc = "palette"
    /\ \E err \in BOOLEAN :
         /\ encLog' = Append(encLog, [cmd |-> "palette", ok |-> ~err])
         /\ paletteExists' = (paletteExists \/ ~err)
         /\ IF PaletteCallback(err) = "reject"
              THEN /\ pc' = "catch"
                   /\ failedAt' = "palette"
              ELSE /\ pc' = "gif"
                   /\ UNCHANGED failedAt
    /\ stages' = Append(stages, "palette")
    /\ UNCHANGED <<htmlPath, duration, exitCode, exitVia, dirExists, frames,
                   browser, i, attempt, cur, orphans, pageTime, ret,
                   backoffMs, called, outcomes, calls, gaps, dirAtFill,
                   cleanups,
                   callSeq, waits, wsh, settled>>

\* Lines 500-507: the GIF command and the head of its callback.
Gif ==
    /\ pc = "gif"
    /\ \E err \in BOOLEAN :
         /\ encLog' = Append(encLog, [cmd |-> "gif", ok |-> ~err])
         /\ IF GifCallback(err) = "reject"
              THEN /\ pc' = "catch"
                   /\ failedAt' = "gif"
              ELSE /\ pc' = "gif_cleanup"
                   /\ UNCHANGED failedAt
    /\ stages' = Append(stages, "gif")
    /\ UNCHANGED <<htmlPath, duration, exitCode, exitVia, dirExists, frames,
                   paletteExists, browser, i, attempt, cur, orphans,
                   pageTime, ret, backoffMs, called, outcomes, calls, gaps,
                   dirAtFill, cleanups,
                   callSeq, waits, wsh, settled>>

\* Line 508: await cleanup() inside the GIF callback.
GifCleanup ==
    /\ pc = "gif_cleanup"
    /\ CleanupEffect
    /\ pc' = "preview"
    /\ UNCHANGED <<htmlPath, duration, exitCode, exitVia, browser, i,
                   attempt, cur, orphans, pageTime, ret, backoffMs, called,
                   outcomes, calls, gaps, dirAtFill, encLog, failedAt,
                   callSeq, waits, wsh, settled>>

\* Lines 511-515: capturePreviewImage, then resolve(). When it throws, the
\* async callback's promise rejects with nobody handling it and the promise
\* main awaits never settles: the runtime either ends the process on the
\* unhandled rejection (status 1) or lets it run out of work with main
\* still pending (status 0).
Preview ==
    /\ pc = "preview"
    /\ \E ok \in BOOLEAN :
         IF ok THEN /\ pc' = "finally"
                    /\ UNCHANGED <<exitCode, exitVia, failedAt>>
               ELSE /\ pc' = "exited"
                    /\ failedAt' = "preview"
                    /\ \E code \in {0, 1} :
                         /\ exitCode' = code
                         /\ exitVia' = IF code = 1 THEN "unhandled_rejection"
                                                   ELSE "main_pending"
    /\ stages' = Append(stages, "preview")
    /\ UNCHANGED <<htmlPath, duration, dirExists, frames, paletteExists,
                   browser, i, attempt, cur, orphans, pageTime, ret,
                   backoffMs, called, outcomes, calls, gaps, dirAtFill,
                   encLog, cleanups,
                   callSeq, waits, wsh, settled>>

\* Lines 519-521: process.exit(1) ends the process inside the catch block;
\* the finally block is not run.
Catch ==
    /\ pc = "catch"
    /\ pc' = "exited"
    /\ exitCode' = CatchExit.code
    /\ exitVia' = CatchExit.via
    /\ UNCHANGED <<htmlPath, duration, dirExists, frames, paletteExists,
                   browser, i, attempt, cur, orphans, pageTime, ret,
                   backoffMs, called, outcomes, calls, gaps, dirAtFill,
                   encLog, failedAt, cleanups,
                   stages,
                   callSeq, waits, wsh, settled>>

\* Lines 522-527, reached when the try block completed: close the browser
\* if set, cleanup(); then main's promise resolves and the process ends.
Finally ==
    /\ pc = "finally"
    /\ browser' = FALSE
    /\ CleanupEffect
    /\ pc' = "exited"
    /\ exitCode' = 0
    /\ exitVia' = "finally"
    /\ UNCHANGED <<htmlPath, duration, i, attempt, cur, orphans, pageTime,
                   ret, backoffMs, called, outcomes, calls, gaps, dirAtFill,
                   encLog, failedAt,
                   callSeq, waits, wsh, settled>>

Next ==
    \/ Validate
    \/ MkDir
    \/ Launch
    \/ LoadPage
    \/ LoopHead
    \/ StartAttempt
    \/ CaptureStep
    \/ CaptureThrows
    \/ Timeout
    \/ OrphanStep
    \/ OrphanThrows
    \/ BackoffDone
    \/ CwrReturn
    \/ ClosePage
    \/ Fill
    \/ Palette
    \/ Gif
    \/ GifCleanup
    \/ Preview
    \/ Catch
    \/ Finally

Spec == Init /\ [][Next]_vars

\* The wrapper script alone: capture.js is not started by it (its tool is
\* gif/thr_to_gif.py), so the converter's state stays as it is.
capVars == <<htmlPath, duration, pc, exitCode, exitVia, dirExists, frames,
             paletteExists, browser, i, attempt, cur, orphans, pageTime, ret,
             backoffMs, called, outcomes, calls, gaps, dirAtFill, encLog,
             failedAt, cleanups, stages, callSeq, waits, settled>>

InitW ==
    /\ htmlPath = FALSE
    /\ duration = NaN
    /\ pc = "validate"
    /\ exitCode = -1
    /\ exitVia = "running"
    /\ dirExists = FALSE
    /\ frames = EmptyDir
    /\ paletteExists = FALSE
    /\ browser = FALSE
    /\ i = 0
    /\ attempt = 0
    /\ cur = NoCapture
    /\ orphans = {}
    /\ pageTime = -1
    /\ ret = FALSE
    /\ backoffMs = 0
    /\ called = {}
    /\ outcomes = <<>>
    /\ calls = 0
    /\ gaps = {}
    /\ dirAtFill = EmptyDir
    /\ encLog = <<>>
    /\ failedAt = "none"
    /\ cleanups = 0
    /\ stages = <<>>
    /\ callSeq = <<>>
    /\ waits = <<>>
    /\ settled = FALSE
    /\ wsh \in WInits
    /\ (wsh.kind # "dir" => wsh.entries = <<>>)

NextW ==
    \/ WStart /\ UNCHANGED capVars
    \/ WLoopStep /\ UNCHANGED capVars
    \/ WSingle /\ UNCHANGED capVars

SpecW == InitW /\ [][NextW]_vars

\* What the runtime guarantees: a pending timer fires (the race's timer,
\* the backoff's), synchronous code runs on, and closing the page and the
\* browser returns. Nothing is assumed of the page: a captureFrame
\* invocation may stay pending for ever.
\* No guard of the frame loop reads the frame files, so termination is
\* checked for the runs that start without stale files.
InitClean == Init /\ frames = EmptyDir

FairSpec ==
    /\ InitClean
    /\ [][Next]_vars
    /\ WF_vars(Timeout)
    /\ WF_vars(BackoffDone)
    /\ WF_vars(LoopHead)
    /\ WF_vars(StartAttempt)
    /\ WF_vars(CwrReturn)
    /\ WF_vars(ClosePage)

\* ================================================================ claims
\* The frame indices the run is to produce: [0, totalFrames).
Wanted == {k \in FrameIdx : Lt(k, totalFrames)}

\* fillMissingFrames has just returned (the files stay as they are until
\* the encoder has run).
FillReturned == pc = "palette"

\* The largest index below k whose file existed when the filler started.
EarlierAtFill(k) == {j \in FrameIdx : j < k /\ Exists(dirAtFill, j)}
NearestEarlier(k) ==
    CHOOSE j \in EarlierAtFill(k) : \A h \in EarlierAtFill(k) : h <= j

\* C1: when fillMissingFrames returns, a frame file exists for every index
\* in [0, totalFrames), whichever of them existed when it started.
C1_EveryIndexFilled ==
    FillReturned => \A k \in Wanted : Exists(frames, k)

\* The filler was entered with frame 0 and a later wanted frame missing.
C1_Witness ==
    /\ FillReturned
    /\ ~Exists(dirAtFill, 0)
    /\ \E k \in Wanted : k >= 2 /\ ~Exists(dirAtFill, k)

\* C2 (as claimed): on every exit of the process after main's try block was
\* entered, ./frames and palette.png no longer exist.
C2_CleanedOnEveryExit ==
    (pc = "exited" /\ exitVia # "usage") => (~dirExists /\ ~paletteExists)

\* C3: frame failures never abort the pipeline: no error of a capture
\* attempt reaches main's catch; once the frame loop is left
\* captureWithRetry has been called for every index in [0, totalFrames);
\* the encoder is invoked only after that and after fillMissingFrames; and
\* every run that got past loading the page invoked the encoder.
LoopLeft == pc \in {"close", "fill", "palette", "gif", "gif_cleanup",
                    "preview", "finally"}
EncoderFailed == \E n \in DOMAIN encLog : ~encLog[n].ok
PaletteFailed ==
    \E n \in DOMAIN encLog : encLog[n].cmd = "palette" /\ ~encLog[n].ok

\* C4: a failed encoder invocation is fatal: nothing but the exit follows
\* it, the exit status is not 0, and after a failed palette generation the
\* GIF command is never invoked.
C4_EncoderFailureFatal ==
    /\ (EncoderFailed => pc \in {"catch", "exited"})
    /\ ((EncoderFailed /\ pc = "exited") => exitCode >= 1)
    /\ (PaletteFailed => \A n \in DOMAIN encLog : encLog[n].cmd # "gif")

\* The palette command failed and the process has ended.
C4_Witness == PaletteFailed /\ pc = "exited"

\* Index k is one the claim C5 speaks of.
InteriorGap(k) ==
    /\ k > 0
    /\ k \in Wanted
    /\ ~Exists(dirAtFill, k)
    /\ EarlierAtFill(k) # {}

\* C5: a missing index k, 0 < k < totalFrames, with an earlier frame
\* present when the filler started, ends up holding the content of the
\* nearest earlier frame that was present then.
C5_GapCopiesNearestEarlier ==
    FillReturned =>
      \A k \in FrameIdx :
        InteriorGap(k) => frames[k] = dirAtFill[NearestEarlier(k)]

\* A gap whose nearest earlier frame is not frame 0 and differs from it.
C5_Witness ==
    /\ FillReturned
    /\ \E k \in FrameIdx :
         /\ InteriorGap(k)
         /\ NearestEarlier(k) >= 1
         /\ frames[0] # dirAtFill[NearestEarlier(k)]

\* C6: with frame 0 missing and frame 1 present when the filler starts,
\* frame 0 ends up with the content frame 1 had, and frame 1 is unchanged.
C6_FirstFrameCopiesSecond ==
    (FillReturned /\ ~Exists(dirAtFill, 0) /\ Exists(dirAtFill, 1)) =>
      (frames[0] = dirAtFill[1] /\ frames[1] = dirAtFill[1])

\* Frame 0 could not be captured, frame 1 was, and the filler has run.
C6_Witness ==
    /\ FillReturned
    /\ ~Exists(dirAtFill, 0)
    /\ dirAtFill[1].src = "shot"
    /\ 0 \in gaps

\* C7 (as claimed): when no file with an index in [0, totalFrames) exists
\* as the filler starts (totalFrames >= 1), every index in [0, totalFrames)
\* ends up holding the blank frame.
C7_AllMissingGivesBlank ==
    (/\ FillReturned
     /\ Wanted # {}
     /\ \A k \in Wanted : ~Exists(dirAtFill, k))
      => \A k \in Wanted : frames[k] = Blank

\* captureWithRetry is executing (it has not returned to main's loop).
InCall == pc \in {"cwr_try", "race", "cwr_backoff"}

\* C8: captureWithRetry calls captureFrame at most MAX_RETRIES + 1 = 4
\* times; a successful attempt is the last one; it returns true exactly
\* when its last attempt succeeded and false exactly when four attempts
\* failed; and no failure is thrown to its caller.
C8_BoundedRetry ==
    /\ calls <= MAX_RETRIES + 1
    /\ calls <= 4
    /\ Len(outcomes) <= calls
    /\ \A n \in DOMAIN outcomes :
         outcomes[n] = "ok" => (n = Len(outcomes) /\ n = calls /\ ~InCall)
    /\ (pc = "cwr_ret" =>
          /\ Len(outcomes) = calls
          /\ ret = (outcomes[Len(outcomes)] = "ok")
          /\ (~ret) = (calls = 4 /\ \A n \in DOMAIN outcomes : outcomes[n] = "fail"))
    /\ failedAt # "capture"

\* captureWithRetry returns false after its fourth failed attempt.
C8_Witness == pc = "cwr_ret" /\ ~ret /\ calls = 4

\* captureFrame invocations that are pending on the page.
Running == (IF cur = NoCapture THEN 0 ELSE 1) + Cardinality(orphans)

\* C9 (as claimed): at most one captureFrame invocation is in progress at
\* any moment; one that lost its race is gone when the next one starts.
C9_NoParallelCapture == Running <= 1

\* C10 (as claimed): every frame file written by a screenshot shows the
\* page at the time of its own index: the last seek before the screenshot
\* was the seek to index / fps.
C10_ShotShowsOwnTime ==
    \A k \in FrameIdx : frames[k].src = "shot" => frames[k].t = k

PipelineOrder ==
    <<"close", "fill", "palette", "gif", "cleanup", "preview", "cleanup">>
IsPrefix(a, b) == Len(a) <= Len(b) /\ \A n \in DOMAIN a : a[n] = b[n]

\* C13: the stages run in a fixed order: captureWithRetry is called once
\* per index, ascending; the page and browser are closed, then the filler
\* runs, then the palette command, then (the palette made) the GIF command,
\* then (the GIF made) the preview; the encoder runs at most twice.
C13_FixedStageOrder ==
    /\ \A n \in DOMAIN callSeq : callSeq[n] = n - 1
    /\ IsPrefix(stages, PipelineOrder)
    /\ (stages # <<>> => Len(callSeq) = Cardinality(Wanted))
    /\ (Len(stages) >= 2 => (~browser /\ orphans = {} /\ cur = NoCapture))
    /\ Len(encLog) <= 2
    /\ IsPrefix([n \in DOMAIN encLog |-> encLog[n].cmd], <<"palette", "gif">>)
    /\ (Len(stages) >= 3 <=> encLog # <<>>)
    /\ (Len(stages) >= 4 => (Len(encLog) = 2 /\ encLog[1].ok))
    /\ (Len(stages) >= 6 => encLog[2].ok)

\* A run over three frames that got as far as the preview.
C13_Witness == Len(stages) >= 6 /\ Cardinality(Wanted) = 3

\* The wrapper script has ended.
WDone == wsh.pc = "done"
WArgsGiven == WArg(wsh.argv, 1) # "" /\ WArg(wsh.argv, 2) # ""

\* The entries of the folder that are regular files named *.thr, in order.
RegularThr(entries) ==
    SelectSeq([n \in DOMAIN entries |-> n],
              LAMBDA n : entries[n].thr /\ entries[n].regular)

\* C14: given a folder and a duration the script has invoked the tool once
\* per regular *.thr file of the folder, a failing invocation included and
\* not ending the loop, each time with -d DURATION; given anything else
\* that is not a folder, once; given no file/folder or no duration it
\* exits with status 1 after the usage, without invoking the tool.
C14_WrapperInvocations ==
    /\ \A n \in DOMAIN wsh.calls :
         wsh.calls[n].flag = "-d" /\ wsh.calls[n].dur = WArg(wsh.argv, 2)
    /\ (~WArgsGiven => wsh.calls = <<>>)
    /\ ((WDone /\ ~WArgsGiven) => (wsh.usage /\ wsh.exit = 1))
    /\ ((WDone /\ WArgsGiven) => ~wsh.usage)
    /\ ((WDone /\ WArgsGiven /\ wsh.kind = "dir") =>
          [n \in DOMAIN wsh.calls |-> wsh.calls[n].file] =
            [n \in DOMAIN RegularThr(wsh.entries) |->
               ResolvePath(RegularThr(wsh.entries)[n])])
    /\ ((WDone /\ WArgsGiven /\ wsh.kind # "dir") =>
          /\ Len(wsh.calls) = 1
          /\ wsh.calls[1].file = ResolvePath(WArg(wsh.argv, 1)))

\* A folder run that went on to a second file after the tool failed on
\* the first.
C14_Witness ==
    /\ WDone
    /\ wsh.kind = "dir"
    /\ Len(wsh.calls) = 2
    /\ wsh.calls[1].failed

\* C15 (as claimed): run as in the README, run_thr_tool.sh your1.thr -d 20,
\* the script invokes the tool on your1.thr with 20 after -d.
C15_ReadmeExampleDuration ==
    (WDone /\ wsh.argv = ReadmeArgv /\ wsh.kind = "file") =>
      /\ Len(wsh.calls) = 1
      /\ wsh.calls[1].file.name = "your1.thr"
      /\ wsh.calls[1].dur = "20"

\* C16 (as claimed): the pipeline starts only with an HTML path and a
\* duration that is a number greater than 0; every other run ends with
\* status 1 before anything was created.
C16_DurationMustBePositive ==
    /\ ((pc # "validate" /\ exitVia # "usage") =>
          (htmlPath /\ ~duration.nan /\ duration.v > 0))
    /\ (exitVia = "usage" =>
          (exitCode = 1 /\ ~browser /\ callSeq = <<>> /\ stages = <<>>))

\* C17 (as claimed): a failure of capturePreviewImage after the GIF was
\* made rejects the promise main awaits, so the run ends in main's catch
\* with status 1.
C17_PreviewFailureReachesCatch ==
    (failedAt = "preview" /\ pc = "exited") =>
      (exitVia = "catch" /\ exitCode = 1)

\* C18 (as claimed): when the encoder is first invoked the frame files are
\* exactly those of [0, totalFrames), none of them left by an earlier run.
C18_ExactlyWantedFramesAtEncoder ==
    (pc = "palette") =>
      \A k \in FrameIdx :
        /\ Exists(frames, k) <=> k \in Wanted
        /\ frames[k].src # "stale"

\* C19 (as claimed): fillMissingFrames only adds files: what existed is
\* unchanged, and what it created has an index in [0, totalFrames).
C19_FillOnlyAdds ==
    FillReturned =>
      \A k \in FrameIdx :
        /\ Exists(dirAtFill, k) => frames[k] = dirAtFill[k]
        /\ (Exists(frames, k) /\ ~Exists(dirAtFill, k)) => k \in Wanted

====
